---- MODULE Spec2Model ----
(***************************************************************************)
(* Model of the FEM job-lifecycle client: the orchestrator dt4h_flcore     *)
(* (dt4h-flcore/dt4h_flcore_tool/dt4h_flcore.py) driving FEMAPIClient      *)
(* (vre_tool_dockerized/.../tool/fem_api_client.py).                       *)
(*                                                                         *)
(* One run of dt4h_flcore is a sequential process; pc is its position.     *)
(* Every blocking operation (an HTTP request, a sleep, a file load) is one *)
(* action; the remote side answers each request with any response of a    *)
(* bounded set.  JSON values are tagged records: [kind |-> "dict", d |-> f]*)
(* with f a function from keys to values, [kind |-> "list", items |-> s],  *)
(* [kind |-> "text"], [kind |-> "null"].                                   *)
(*                                                                         *)
(* To keep the exploration finite and small, a run is explored with one   *)
(* of its phases in focus: the phase in focus meets every input and        *)
(* response of its bounded sets, the others meet a few of them.  With the  *)
(* focus "library" no run of dt4h_flcore is explored: a caller calls one   *)
(* of the other entry points (FEMAPIClient.submit_tool, execute_tool,      *)
(* DT4HGenericTool.run) directly.                                          *)
(***************************************************************************)
EXTENDS Integers, Sequences, FiniteSets, TLC

\* ---------------------------------------------------------------- constants
POLLING_INTERVAL == 2
FINISH_WAIT == 22
FILES_TIMEOUT == 120

\* ------------------------------------------------------------------- bounds
\* job_timeout is a caller-supplied argument; the runs explored use the
\* values MaxJobTimeout - 1 and MaxJobTimeout.
MaxJobTimeout == 4
\* a status request takes between 0 and MaxLatency seconds
MaxLatency == 2
\* a status response lists at most MaxStatusLen node entries
MaxStatusLen == 2
\* files_timeout is a caller-supplied argument; the runs explored use the
\* default FILES_TIMEOUT and the shorter ShortFilesTimeout
ShortFilesTimeout == 4

FilesTimeouts == {ShortFilesTimeout, FILES_TIMEOUT}
JobTimeouts == {MaxJobTimeout - 1, MaxJobTimeout}

\* ------------------------------------------------------------- JSON values
PyNone == [kind |-> "None"]
Text(t) == [kind |-> "text", t |-> t]
Dict(f) == [kind |-> "dict", d |-> f]
List(s) == [kind |-> "list", items |-> s]
IsDict(v) == v.kind = "dict"
IsList(v) == v.kind = "list"
\* Python's `key in value` for a dict
HasKey(v, k) == IsDict(v) /\ k \in DOMAIN v.d

\* the value _do_get_request / _do_post_request return on RequestException
ErrorDict == Dict("error" :> Text("request failed"))
SENTINEL == Text("Job timed out before completion.")

Nodes == {"BSC", "UB"}
ExecId == "exec-1"
\* the id the API gives to another execution
OtherExecId == "exec-2"

\* -------------------------------------------------------- status responses
\* one entry of a status response: a mapping with a node and, possibly, a
\* status
StatusEntries ==
    {("node" :> "BSC" @@ "status" :> s) : s \in {"running", "finished", "failed"}}
        \cup {("node" :> "BSC")}

RECURSIVE SeqsUpTo(_, _)
SeqsUpTo(S, n) ==
    IF n = 0 THEN {<<>>}
    ELSE LET shorter == SeqsUpTo(S, n - 1)
         IN  shorter \cup {Append(s, x) : s \in {t \in shorter : Len(t) = n - 1}, x \in S}

\* what executions/status/{id} can give back through _do_get_request: a list
\* of entries, a mapping with a top-level status key (an API error body), or
\* the transport's error value
StatusBodies ==
    {List(s) : s \in SeqsUpTo(StatusEntries, MaxStatusLen)}
        \cup {Dict("status" :> Text("error"))}
StatusResponses == StatusBodies \cup {ErrorDict}
\* the status responses met when polling is not in focus
PlainStatusResponses ==
    {List(<<("node" :> "BSC" @@ "status" :> s)>>) : s \in {"running", "finished"}}

\* Python truthiness of a response value
Truthy(v) ==
    CASE v.kind = "None" -> FALSE
      [] v.kind = "null" -> FALSE
      [] v.kind = "list" -> v.items # <<>>
      [] v.kind = "dict" -> DOMAIN v.d # {}
      [] v.kind = "text" -> v.t # ""
      [] v.kind = "bytes" -> v.n > 0
      [] OTHER -> TRUE

\* `'status' not in node_status` when node_status is a key of a mapping (a
\* string): substring test
ContainsStatus(key) == key \in {"status", "status_code"}

\* variant: an entry without a status is passed over
RECURSIVE check_entries_SkipMissing(_)
check_entries_SkipMissing(s) ==
    IF s = <<>> THEN "true"
    ELSE IF "status" \notin DOMAIN Head(s) THEN check_entries_SkipMissing(Tail(s))
    ELSE IF Head(s)["status"] = "running" THEN "false"
    ELSE check_entries_SkipMissing(Tail(s))

\* check_job_finished: "true", "false", or "raise" (TypeError from indexing
\* a string with 'status')
RECURSIVE check_entries(_)
check_entries(s) ==
    IF s = <<>> THEN "true"
    ELSE IF "status" \notin DOMAIN Head(s) THEN "false"
    ELSE IF Head(s)["status"] = "running" THEN "false"
    ELSE check_entries(Tail(s))

\* variant: no test for an empty status
check_job_finished_NoEmptyTest(status) ==
    IF IsList(status) THEN check_entries(status.items)
    ELSE IF \E k \in DOMAIN status.d : ContainsStatus(k) THEN "raise" ELSE "false"

check_job_finished(status) ==
    IF ~Truthy(status) THEN "false"
    ELSE IF IsList(status) THEN check_entries(status.items)
    ELSE \* iteration over the keys of a mapping; the mappings of
         \* StatusResponses have one key, so the first key decides
         IF \E k \in DOMAIN status.d : ContainsStatus(k) THEN "raise" ELSE "false"

\* ------------------------------------------------------------------- state
VARIABLES
    focus,            \* the phase explored in full: see Focus
    pc,               \* position of dt4h_flcore
    result,           \* what dt4h_flcore gave its caller
    args,             \* the arguments of the call
    client_node_list, \* the local client_node_list
    dataset,          \* FlcoreDataset.dataset
    params_data,      \* the serialized parameters
    api,              \* FEMAPIClient: token, server_node ("" for None), client_nodes
    execution,        \* FEMAPIClient.execution
    all_nodes,
    now,              \* wall clock, seconds
    start_time,       \* wait_for_job's start_time
    poll,             \* the poller's state and when it ended
    files_loaded, files_timeout, files,
    pending,          \* nodes the download loop has not visited yet
    queue,            \* files of the current node still to download
    node,             \* the download loop's current node
    disk,             \* files written to output_path
    environ,          \* os.environ: the FEM_* variables
    health_sites_data, \* FEMAPIClient.health_sites_data
    hb_pending,       \* nodes node_heartbeat's loop has not queried yet
    requested,        \* download requests issued so far, per (node, file)
    lib,              \* a direct call of another entry point: see LibCalls
    reqs,             \* requests issued so far, per endpoint
    response,         \* the latest request's endpoint and what the transport
                      \* returned for it
    request,          \* the latest request's execution id and nodes
    history,          \* the calls of dt4h_flcore in this process: see SecondCall
    DEFAULT_SERVER_PARAMS \* the module-level dictionary of flcore_params.py

vars == <<focus, pc, result, args, client_node_list, dataset, params_data, api,
          execution, all_nodes, now, start_time, poll, files_loaded,
          files_timeout, files, pending, queue, node, disk, reqs, response,
          environ, health_sites_data, hb_pending, requested, lib, request,
          history, DEFAULT_SERVER_PARAMS>>

Endpoints == {"token", "heartbeat", "submit", "status", "logs", "list_files", "download"}

Count(e) == [reqs EXCEPT ![e] = @ + 1]

Answer(e, body) == [endpoint |-> e, body |-> body]

\* what a request names: the execution id (PyNone when it has none) and the
\* nodes in its URL or query
Query(id, nodes) == [execution_id |-> id, nodes |-> nodes]

ToSet(s) == {s[i] : i \in DOMAIN s}

Focus == {"inputs", "health", "polling", "collection", "budget", "library"}

ClientLists == {<<>>, <<"BSC">>, <<"BSC", "UB">>, <<"UB", "BSC">>}

\* the calls of dt4h_flcore explored
Calls ==
    [tool_name : {"", "flcore"},
     server_node : {"", "BSC"},
     client_node_list : ClientLists,
     health_check_path : {""},
     job_timeout : JobTimeouts,
     finish_wait : {FINISH_WAIT},
     files_timeout : {FILES_TIMEOUT}]

\* the call explored when the inputs are not in focus
PlainCall ==
    [tool_name |-> "flcore", server_node |-> "BSC",
     client_node_list |-> <<"BSC", "UB">>, health_check_path |-> "",
     job_timeout |-> MaxJobTimeout,
     finish_wait |-> FINISH_WAIT, files_timeout |-> FILES_TIMEOUT]

\* the health_check_path of the runs explored with the health check enabled
HealthPath == "health.json"

\* the health_check_path run_flcore_demo sets for do_health_check
VREHealthPath == "health_check.json"

\* a health_check_path that open() cannot write to
UnwritablePath == "/no/such/dir/health.json"

\* a direct call of fn; http counts the HTTP requests it issued, outcome is
\* "returned", "failure" (a failure result) or the exception that left it,
\* server_node, client_nodes are those of the FEMAPIClient it used, wire is
\* what happened to its request on the network, value what it returned and
\* elapsed the seconds gone by in its polling loop
LibCall(fn, tool_name, server_node, clients, hc) ==
    [fn |-> fn, pc |-> "call", tool_name |-> tool_name, server_node |-> server_node,
     client_node_list |-> clients, health_check_path |-> hc,
     http |-> 0, outcome |-> "none",
     api |-> [server_node |-> PyNone, client_nodes |-> List(<<>>)],
     wire |-> "none", value |-> PyNone, demo_mode |-> "absent", elapsed |-> 0]

NoLibCall == [LibCall("none", "", "", <<>>, "") EXCEPT !.pc = "done"]

\* the direct calls explored
LibCalls ==
    {LibCall(fn, t, "BSC", <<"BSC">>, "") :
        fn \in {"submit_tool", "execute_tool"}, t \in {"", "flcore"}}
      \cup {LibCall("DT4HGenericTool.run", t, sn, cl, hc) :
               t \in {"", "flcore"}, sn \in {"", "BSC"}, cl \in ClientLists,
               hc \in {"", HealthPath}}
      \cup {LibCall("node_heartbeat", "", "", cl, "") : cl \in ClientLists}
      \cup {LibCall(fn, "", "", <<>>, "") :
               fn \in {"_do_get_request", "_do_post_request",
                       "get_execution_logs", "download_file"}}
      \cup {[LibCall(fn, "flcore", "BSC", <<"BSC", "UB">>, hc) EXCEPT !.demo_mode = d] :
               fn \in {"run_flcore_demo", "myTool.run"},
               hc \in {"", VREHealthPath}, d \in {"absent", "off", "on"}}
      \cup {LibCall("dt4h_demonstrator", "flcore", "BSC", <<"BSC">>, "")}
      \cup {LibCall("save_health_data", "flcore", "BSC", cl, hc) :
               cl \in ClientLists \ {<<>>}, hc \in {HealthPath, UnwritablePath}}

\* the process environment: "" stands for a variable that is not set
Environ(token, user, password) ==
    [FEM_ACCESS_TOKEN |-> token, FEM_USER_NAME |-> user,
     FEM_USER_PASSWORD |-> password]

Environs ==
    {Environ("tok", "", ""), Environ("tok", "user", "pw"), Environ("", "user", "pw"),
     Environ("", "user", ""), Environ("", "", "")}

\* flcore_params.py, lines 22-26: n_features is len(DEFAULT_TRAIN_LABELS)
DefaultServerParams == [n_features |-> 9, num_rounds |-> 1, num_clients |-> 1]

\* the first call of dt4h_flcore in the process: no heartbeat heard yet, no
\* selection made by an earlier call
FirstCall ==
    [run |-> 1, heartbeats |-> <<>>,
     selected |-> [server_node |-> "", client_nodes |-> <<>>]]

Init ==
    /\ focus \in Focus
    /\ environ \in IF focus \in {"inputs", "library"} THEN Environs
                   ELSE {Environ("tok", "", "")}
    /\ pc = IF focus = "library" THEN "idle" ELSE "start"
    /\ lib \in IF focus = "library" THEN LibCalls ELSE {NoLibCall}
    /\ health_sites_data = [n \in {} |-> PyNone]
    /\ hb_pending = <<>>
    /\ requested = [k \in {} |-> 0]
    /\ result = [status |-> "none"]
    /\ args \in CASE focus = "inputs" -> Calls
                  [] focus = "polling" ->
                       {[PlainCall EXCEPT !.job_timeout = t] : t \in JobTimeouts}
                  [] focus = "budget" ->
                       {[PlainCall EXCEPT !.files_timeout = t] : t \in FilesTimeouts}
                  [] focus = "health" ->
                       {[PlainCall EXCEPT !.health_check_path = HealthPath,
                                          !.client_node_list = cl] :
                          cl \in ClientLists \ {<<>>}}
                  [] OTHER -> {PlainCall}
    /\ client_node_list = args.client_node_list
    /\ dataset = PyNone
    /\ params_data = PyNone
    /\ api = [token |-> PyNone, server_node |-> "", client_nodes |-> <<>>]
    /\ execution = PyNone
    /\ all_nodes = {}
    /\ now = 0
    /\ start_time = 0
    /\ poll = [state |-> "Idle", finished |-> "false", ended |-> 0]
    /\ files_loaded = FALSE
    /\ files_timeout = args.files_timeout
    /\ files = PyNone
    /\ pending = {}
    /\ queue = <<>>
    /\ node = ""
    /\ disk = [k \in {} |-> PyNone]
    /\ reqs = [e \in Endpoints |-> 0]
    /\ response = Answer("none", PyNone)
    /\ request = Query(PyNone, {})
    /\ history = FirstCall
    /\ DEFAULT_SERVER_PARAMS = DefaultServerParams

\* return r / an exception leaves dt4h_flcore
Return(r) == pc' = "done" /\ result' = r
Failure(m) == Return([status |-> "failure", message |-> m])
Raise(e) == Return([status |-> "exception", exc |-> e])

\* ------------------------------------------------- dt4h_flcore, lines 39-59
\* input validation
Validate ==
    /\ pc = "start"
    /\ IF args.tool_name = "" THEN Failure("Tool name must be provided")
       ELSE IF args.server_node = "" THEN Failure("Server node must be provided")
       ELSE pc' = "auth" /\ UNCHANGED result
    /\ UNCHANGED <<focus, environ, lib, history, DEFAULT_SERVER_PARAMS,
                   health_sites_data, hb_pending, requested,
                   args, client_node_list, dataset, params_data, api, execution,
                   all_nodes, now, start_time, poll, files_loaded, files_timeout,
                   files, pending, queue, node, disk, reqs, response, request>>

\* what the token endpoint can give back through _do_post_request
TokenResponses ==
    {Dict("access_token" :> Text("tok")), Dict("detail" :> Text("denied")), ErrorDict}

\* variant: a response without access_token gives an empty token
authenticate_EmptyToken(env, resp) ==
    IF env.FEM_ACCESS_TOKEN # "" THEN Text(env.FEM_ACCESS_TOKEN)
    ELSE IF env.FEM_USER_NAME # "" /\ env.FEM_USER_PASSWORD # ""
    THEN IF HasKey(resp, "access_token") THEN resp.d["access_token"] ELSE Text("")
    ELSE PyNone

\* FEMAPIClient.authenticate: the token it leaves in self.token, resp being
\* the token endpoint's response when it is asked
authenticate(env, resp) ==
    IF env.FEM_ACCESS_TOKEN # "" THEN Text(env.FEM_ACCESS_TOKEN)
    ELSE IF env.FEM_USER_NAME # "" /\ env.FEM_USER_PASSWORD # ""
    THEN IF HasKey(resp, "access_token") THEN resp.d["access_token"] ELSE PyNone
    ELSE PyNone

\* whether authenticate() posts to the token endpoint
Exchanges(env) ==
    env.FEM_ACCESS_TOKEN = "" /\ env.FEM_USER_NAME # "" /\ env.FEM_USER_PASSWORD # ""

\* dt4h_flcore, lines 48-59: authenticate() and the token test
Authenticate ==
    /\ pc = "auth"
    /\ \E resp \in (IF Exchanges(environ) THEN TokenResponses ELSE {PyNone}) :
         LET tok == authenticate(environ, resp)
         IN  /\ api' = [api EXCEPT !.token = tok]
             /\ reqs' = IF Exchanges(environ) THEN Count("token") ELSE reqs
             /\ request' = IF Exchanges(environ) THEN Query(PyNone, {}) ELSE request
             /\ response' = IF Exchanges(environ) THEN Answer("token", resp)
                            ELSE response
             /\ IF tok = PyNone THEN Failure("Failed to obtain access token")
                ELSE pc' = "dataset" /\ UNCHANGED result
    /\ UNCHANGED <<focus, environ, lib, history, DEFAULT_SERVER_PARAMS,
                   health_sites_data, hb_pending, requested,
                   args, client_node_list, dataset, params_data, execution,
                   all_nodes, now, start_time, poll, files_loaded, files_timeout,
                   files, pending, queue, node, disk>>

\* ------------------------------------------------ flcore_params.FlcoreDataset
\* A dataset id is kept as the sequence of its ':'-separated parts:
\* "BSC:ds1" is <<"BSC", "ds1">>, "ds1" is <<"ds1">>.
DatasetIds == {<<"BSC", "ds1">>, <<"ds1">>}

\* the file at input_dataset_path: no path given, a file that is not there,
\* a file that is not JSON, or a JSON mapping with or without a dataset_id
DatasetFiles ==
    {[kind |-> "nopath"], [kind |-> "missing"], [kind |-> "malformed"],
     [kind |-> "json", data |-> Dict(<<>>)]}
        \cup {[kind |-> "json", data |-> Dict("dataset_id" :> id)] : id \in DatasetIds}

\* FlcoreDataset.get_clients
get_clients(ds) ==
    IF HasKey(ds, "dataset_id") /\ Len(ds.d["dataset_id"]) > 1
    THEN <<ds.d["dataset_id"][1]>>
    ELSE <<>>

\* FlcoreDataset.get_dataset_id
get_dataset_id(ds) ==
    IF HasKey(ds, "dataset_id") THEN ds.d["dataset_id"] ELSE <<>>

\* dt4h_flcore, lines 62-68: FlcoreDataset(...), then the client list taken
\* from the dataset when the caller gave none
LoadDataset ==
    /\ pc = "dataset"
    /\ \E f \in (IF focus = "inputs" THEN DatasetFiles
                ELSE {[kind |-> "nopath"]}) :
         CASE f.kind = "missing" ->
                /\ Raise("FileNotFoundError")
                /\ UNCHANGED <<dataset, client_node_list>>
           [] f.kind = "malformed" ->
                \* the handler names an unbound variable e
                /\ Raise("NameError")
                /\ UNCHANGED <<dataset, client_node_list>>
           [] OTHER ->
                LET ds == IF f.kind = "nopath" THEN Dict(<<>>) ELSE f.data
                    cl == IF client_node_list = <<>> THEN get_clients(ds)
                          ELSE client_node_list
                IN  /\ dataset' = ds
                    /\ client_node_list' = cl
                    /\ IF cl = <<>>
                       THEN Failure("No client nodes found in data manifest.")
                       ELSE pc' = "select" /\ UNCHANGED result
    /\ UNCHANGED <<focus, environ, lib, history, DEFAULT_SERVER_PARAMS,
                   health_sites_data, hb_pending, requested,
                   args, params_data, api, execution, all_nodes, now, start_time,
                   poll, files_loaded, files_timeout, files, pending, queue,
                   node, disk, reqs, response, request>>

\* dt4h_flcore, lines 71-77 and 114: node selection with the health check
\* disabled
SelectNodes ==
    /\ pc = "select"
    /\ args.health_check_path = ""
    /\ api' = [api EXCEPT !.server_node = args.server_node,
                          !.client_nodes = client_node_list]
    /\ all_nodes' = {args.server_node} \cup ToSet(client_node_list)
    /\ pc' = "params"
    /\ UNCHANGED <<focus, environ, lib, history, DEFAULT_SERVER_PARAMS,
                   health_sites_data, hb_pending, requested,
                   result, args, client_node_list, dataset, params_data,
                   execution, now, start_time, poll, files_loaded, files_timeout,
                   files, pending, queue, node, disk, reqs, response, request>>

\* ------------------------------------------- FEMAPIClient.node_heartbeat
\* one node's heartbeat record
HeartbeatRecords ==
    {Dict("state" :> Text(st)) : st \in {"running", "stopped"}}
        \cup {Dict("node" :> Text("n1")), Dict(<<>>)}

\* what hosts/heartbeat can give back through _do_get_request: a list with
\* one record, an empty list, a record not wrapped in a list, or the
\* transport's error value
HeartbeatResponses ==
    {List(<<r>>) : r \in HeartbeatRecords}
        \cup {List(<<>>), Dict("state" :> Text("running")), Dict(<<>>), ErrorDict}

NoHeartbeatData == Dict("error" :> Text("No heartbeat data available"))

\* node_heartbeat, lines 102-105: what is stored for a response
Normalised(resp) ==
    IF IsList(resp) /\ Len(resp.items) > 0
    THEN IF DOMAIN resp.items[1].d = {} THEN NoHeartbeatData ELSE resp.items[1]
    ELSE resp

\* health_sites_data[node_id] = hbeats[node_id]
Record(n, v) ==
    [m \in DOMAIN health_sites_data \cup {n} |->
        IF m = n THEN v ELSE health_sites_data[m]]

\* the k-th heartbeat of a call: any response in the first call of the
\* process; in the second call the remote side is taken to answer as it
\* did in the first
Heartbeats(k) ==
    IF history.run = 1 THEN HeartbeatResponses ELSE {history.heartbeats[k]}

\* the first call's heartbeat responses, in the order they came
Heard(resp) ==
    IF history.run = 1
    THEN [history EXCEPT !.heartbeats = Append(@, resp)]
    ELSE history

\* variant: a record with a state counts as running, whatever the state
IsRunning_AnyState(data) == HasKey(data, "state")

\* the activity test of dt4h_flcore, lines 82-83 and 97-98
IsRunning(data) == HasKey(data, "state") /\ data.d["state"] = Text("running")

\* dt4h_flcore, lines 79-89: the server's heartbeat and the server test
HeartbeatServer ==
    /\ pc = "select"
    /\ args.health_check_path # ""
    /\ reqs' = Count("heartbeat")
    /\ request' = Query(PyNone, {args.server_node})
    /\ \E resp \in Heartbeats(1) :
         /\ response' = Answer("heartbeat", resp)
         /\ history' = Heard(resp)
         /\ health_sites_data' = Record(args.server_node, Normalised(resp))
         /\ api' = [api EXCEPT
                      !.server_node = IF IsRunning(Normalised(resp))
                                      THEN args.server_node ELSE "",
                      !.client_nodes = <<>>]
    /\ hb_pending' = client_node_list
    /\ pc' = "hb_clients"
    /\ UNCHANGED <<focus, environ, lib, DEFAULT_SERVER_PARAMS, requested, result,
                   args, client_node_list, dataset,
                   params_data, execution, all_nodes, now, start_time, poll,
                   files_loaded, files_timeout, files, pending, queue, node, disk>>

\* node_heartbeat(client_node_list), line 91: one iteration of its loop
HeartbeatClient ==
    /\ pc = "hb_clients"
    /\ hb_pending # <<>>
    /\ reqs' = Count("heartbeat")
    /\ request' = Query(PyNone, {Head(hb_pending)})
    /\ \E resp \in Heartbeats(reqs["heartbeat"] + 1) :
         /\ response' = Answer("heartbeat", resp)
         /\ history' = Heard(resp)
         /\ health_sites_data' = Record(Head(hb_pending), Normalised(resp))
    /\ hb_pending' = Tail(hb_pending)
    /\ pc' = IF Tail(hb_pending) = <<>> THEN "hb_filter" ELSE "hb_clients"
    /\ UNCHANGED <<focus, environ, lib, DEFAULT_SERVER_PARAMS, requested, result,
                   args, client_node_list, dataset,
                   params_data, api, execution, all_nodes, now, start_time, poll,
                   files_loaded, files_timeout, files, pending, queue, node, disk>>

ActiveClient(n) == IsRunning(health_sites_data[n])

\* variant: the active nodes are appended to the selection of the previous
\* call
Selected_Accumulating(active) == history.selected.client_nodes \o active

\* dt4h_flcore, lines 89 and 97-99: client_nodes is emptied, then every
\* active node is appended
Selected(active) == active

\* variant: only the server is looked at
NotEnoughActive_ServerOnly(server, active) == server = ""

\* the test of dt4h_flcore, line 108
NotEnoughActive(server, active) == server = "" \/ Len(active) = 0

\* dt4h_flcore, lines 92-114: the client filter, the health file, the test
\* for enough active nodes, and all_nodes.  The write of the health file is
\* inside a try and has no effect on what follows.
FilterClients ==
    /\ pc = "hb_filter"
    /\ IF \E i \in DOMAIN client_node_list :
            ~Truthy(health_sites_data[client_node_list[i]])
       THEN \* the loop returns at the first node without data
            LET bad == CHOOSE i \in DOMAIN client_node_list :
                         /\ ~Truthy(health_sites_data[client_node_list[i]])
                         /\ \A j \in 1..(i - 1) :
                              Truthy(health_sites_data[client_node_list[j]])
            IN  /\ api' = [api EXCEPT !.client_nodes =
                             Selected(SelectSeq(SubSeq(client_node_list, 1, bad - 1),
                                                ActiveClient))]
                /\ Failure("No client heartbeat data found.")
                /\ UNCHANGED all_nodes
       ELSE LET active == Selected(SelectSeq(client_node_list, ActiveClient)) IN
            /\ api' = [api EXCEPT !.client_nodes = active]
            /\ IF NotEnoughActive(api.server_node, active)
               THEN Failure("No enough active nodes found.") /\ UNCHANGED all_nodes
               ELSE /\ all_nodes' = {api.server_node} \cup ToSet(active)
                    /\ pc' = "params"
                    /\ UNCHANGED result
    /\ UNCHANGED <<focus, environ, lib, history, DEFAULT_SERVER_PARAMS,
                   health_sites_data, hb_pending, requested, args,
                   client_node_list, dataset, params_data, execution, now,
                   start_time, poll, files_loaded, files_timeout, files, pending,
                   queue, node, disk, reqs, response, request>>

\* what a parameter file sets in its server section
FileNumClients == 7
FileNumRounds == 5

\* the file at input_params_path: no path, a file that is not there or not
\* JSON/YAML, or a mapping: its server section (PyNone when it has none) and
\* whether it has a client section
ParamFiles ==
    {[kind |-> "nopath"], [kind |-> "unreadable"]}
        \cup [kind : {"mapping"},
              server : {PyNone, Dict("num_clients" :> FileNumClients),
                        Dict("num_rounds" :> FileNumRounds)},
              client : BOOLEAN]

\* FlcoreParams.__init__, lines 69 and 87-91: the server parameters after
\* num_clients is set and the file's server section is copied over them
ServerParams(f, num_clients) ==
    LET base == [DEFAULT_SERVER_PARAMS EXCEPT !.num_clients = num_clients]
    IN  IF f.kind = "mapping" /\ f.server # PyNone
        THEN [k \in DOMAIN base |->
                 IF k \in DOMAIN f.server.d THEN f.server.d[k] ELSE base[k]]
        ELSE base

\* FlcoreParams.__init__, lines 96-103: where a dataset id goes in the
\* parameters, as the path of keys followed by the value
Inject(id) ==
    CASE Len(id) = 0 -> <<>>
      [] Len(id) = 1 -> <<"data_id", id[1]>>
      [] OTHER -> <<id[1], "data_id", id[2]>>

\* dt4h_flcore, lines 128-134: FlcoreParams(...) and get_params_json().
\* input_params['server'] is the module's DEFAULT_SERVER_PARAMS itself, so
\* every assignment to it stays in the module after the call, also when the
\* constructor raises later on.
BuildParams ==
    /\ pc = "params"
    /\ \E f \in (IF focus = "inputs" THEN ParamFiles ELSE {[kind |-> "nopath"]}) :
         LET server == ServerParams(f, Len(api.client_nodes)) IN
         CASE f.kind = "unreadable" ->
                /\ DEFAULT_SERVER_PARAMS' = server
                /\ Raise("ValueError") /\ UNCHANGED params_data
           [] f.kind = "mapping" /\ ~f.client ->
                /\ DEFAULT_SERVER_PARAMS' = server
                /\ Raise("KeyError") /\ UNCHANGED params_data
           [] OTHER ->
                /\ DEFAULT_SERVER_PARAMS' = server
                /\ params_data' = [server |-> server,
                                   from_file |-> (f.kind = "mapping"),
                                   data_id |-> IF f.kind = "mapping"
                                               THEN Inject(get_dataset_id(dataset))
                                               ELSE <<>>]
                /\ pc' = "submit"
                /\ UNCHANGED result
    /\ UNCHANGED <<focus, environ, lib, history, health_sites_data, hb_pending,
                   requested, args, client_node_list, dataset, api, execution,
                   all_nodes, now, start_time, poll, files_loaded, files_timeout,
                   files, pending, queue, node, disk, reqs, response, request>>

\* --------------------------------------------- FEMAPIClient.submit_tool
\* what tools/job/{tool_name} can give back through _do_post_request
SubmitAccepted ==
    Dict("status" :> Text("success") @@ "execution_id" :> Text(ExecId))
SubmitResponses ==
    {SubmitAccepted,
     Dict("status" :> Text("success") @@ "execution_id" :> Text(OtherExecId)),
     Dict("status" :> Text("success")),
     Dict("status" :> Text("failed") @@ "execution_id" :> Text(ExecId)),
     Dict("detail" :> Text("unknown tool")),
     ErrorDict}

\* variant: the status of the response is not looked at
SubmissionOk_IdOnly(resp) == HasKey(resp, "execution_id")

\* the test of submit_tool, line 205
SubmissionOk(resp) ==
    /\ HasKey(resp, "status")
    /\ resp.d["status"] = Text("success")
    /\ HasKey(resp, "execution_id")

\* variant: the execution is given the same id whatever the response says
NewExecution_FixedId(resp) ==
    [kind |-> "Execution", id |-> Text(ExecId), status |-> PyNone, logs |-> PyNone]

\* Execution.__init__
NewExecution(resp) ==
    [kind |-> "Execution", id |-> resp.d["execution_id"],
     status |-> PyNone, logs |-> PyNone]

\* an exception out of submit_tool, caught at dt4h_flcore line 150
SubmitToolRaised == Failure("Failed to execute tool")

\* submit_tool up to the call of wait_for_job, and wait_for_job's first line
Submit ==
    /\ pc = "submit"
    /\ reqs' = Count("submit")
    /\ request' = Query(PyNone, {api.server_node} \cup ToSet(api.client_nodes))
    /\ \E resp \in (IF focus = "inputs" THEN SubmitResponses
                   ELSE {SubmitAccepted}) :
         /\ response' = Answer("submit", resp)
         /\ IF SubmissionOk(resp)
            THEN /\ execution' = NewExecution(resp)
                 /\ start_time' = now
                 /\ poll' = [poll EXCEPT !.state = "Submitted"]
                 /\ pc' = "poll_sleep"
                 /\ UNCHANGED result
            ELSE /\ SubmitToolRaised
                 /\ UNCHANGED <<execution, start_time, poll>>
    /\ UNCHANGED <<focus, environ, lib, history, DEFAULT_SERVER_PARAMS,
                   health_sites_data, hb_pending, requested,
                   args, client_node_list, dataset, params_data, api, all_nodes,
                   now, files_loaded, files_timeout, files, pending, queue, node,
                   disk>>

\* --------------------------------------------- FEMAPIClient.wait_for_job
\* time.sleep(interval)
PollSleep ==
    /\ pc = "poll_sleep"
    /\ now' = now + POLLING_INTERVAL
    /\ poll' = [poll EXCEPT !.state = "Polling"]
    /\ pc' = "poll_status"
    /\ UNCHANGED <<focus, environ, lib, history, DEFAULT_SERVER_PARAMS,
                   health_sites_data, hb_pending, requested,
                   result, args, client_node_list, dataset, params_data, api,
                   execution, all_nodes, start_time, files_loaded, files_timeout,
                   files, pending, queue, node, disk, reqs, response, request>>

\* variant: the logs are left as they are on timeout
TimeoutLogs_Keep(ex) == ex

\* wait_for_job, line 238
TimeoutLogs(ex) == [ex EXCEPT !.logs = SENTINEL]

\* the timeout test of wait_for_job, line 236
TimedOut(t) == t - start_time > args.job_timeout

\* variant: the timeout is tested before the finished status
PollStatus_TimeoutFirst ==
    /\ pc = "poll_status"
    /\ reqs' = Count("status")
    /\ request' = Query(execution.id, {})
    /\ \E resp \in (IF focus = "polling" THEN StatusResponses
                   ELSE PlainStatusResponses),
          lat \in (IF focus = "polling" THEN 0..MaxLatency ELSE {0}) :
         LET fin == check_job_finished(resp) IN
         /\ response' = Answer("status", resp)
         /\ now' = now + lat
         /\ IF fin # "raise" /\ TimedOut(now')
            THEN /\ execution' = TimeoutLogs([execution EXCEPT !.status = resp])
                 /\ poll' = [state |-> "TimedOut", finished |-> fin, ended |-> now']
                 /\ pc' = "settle"
                 /\ UNCHANGED result
            ELSE CASE fin = "true" ->
                        /\ execution' = [execution EXCEPT !.status = resp]
                        /\ poll' = [poll EXCEPT !.finished = fin]
                        /\ pc' = "poll_logs"
                        /\ UNCHANGED result
                   [] fin = "raise" ->
                        /\ execution' = [execution EXCEPT !.status = resp]
                        /\ poll' = [state |-> "Raised", finished |-> fin,
                                    ended |-> now']
                        /\ SubmitToolRaised
                   [] OTHER ->
                        /\ execution' = [execution EXCEPT !.status = resp]
                        /\ poll' = [poll EXCEPT !.finished = fin]
                        /\ pc' = "poll_sleep"
                        /\ UNCHANGED result
    /\ UNCHANGED <<focus, environ, lib, history, DEFAULT_SERVER_PARAMS,
                   health_sites_data, hb_pending, requested,
                   args, client_node_list, dataset, params_data, api, all_nodes,
                   start_time, files_loaded, files_timeout, files, pending, queue,
                   node, disk>>

\* execution_status(), check_job_finished() and the timeout test: one
\* iteration of the loop after its sleep.  The request takes lat seconds.
PollStatus ==
    /\ pc = "poll_status"
    /\ reqs' = Count("status")
    /\ request' = Query(execution.id, {})
    /\ \E resp \in (IF focus = "polling" THEN StatusResponses
                   ELSE PlainStatusResponses),
          lat \in (IF focus = "polling" THEN 0..MaxLatency ELSE {0}) :
         LET fin == check_job_finished(resp) IN
         /\ response' = Answer("status", resp)
         /\ now' = now + lat
         /\ CASE fin = "true" ->
                   /\ execution' = [execution EXCEPT !.status = resp]
                   /\ poll' = [poll EXCEPT !.finished = fin]
                   /\ pc' = "poll_logs"
                   /\ UNCHANGED result
              [] fin = "raise" ->
                   /\ execution' = [execution EXCEPT !.status = resp]
                   /\ poll' = [state |-> "Raised", finished |-> fin, ended |-> now']
                   /\ SubmitToolRaised
              [] OTHER ->
                   IF TimedOut(now')
                   THEN /\ execution' = TimeoutLogs([execution EXCEPT !.status = resp])
                        /\ poll' = [state |-> "TimedOut", finished |-> fin,
                                    ended |-> now']
                        /\ pc' = "settle"
                        /\ UNCHANGED result
                   ELSE /\ execution' = [execution EXCEPT !.status = resp]
                        /\ poll' = [poll EXCEPT !.finished = fin]
                        /\ pc' = "poll_sleep"
                        /\ UNCHANGED result
    /\ UNCHANGED <<focus, environ, lib, history, DEFAULT_SERVER_PARAMS,
                   health_sites_data, hb_pending, requested,
                   args, client_node_list, dataset, params_data, api, all_nodes,
                   start_time, files_loaded, files_timeout, files, pending, queue,
                   node, disk>>

\* what executions/logs/{id} can give back through _do_get_request with
\* output='text'
LogsResponses == {Text("flower server log"), Text(""), ErrorDict}

\* variant: the loop goes on after the logs were fetched
PollLogs_NoBreak ==
    /\ pc = "poll_logs"
    /\ reqs' = Count("logs")
    /\ request' = Query(execution.id, {})
    /\ \E resp \in (IF focus = "inputs" THEN {Text("flower server log")}
                   ELSE LogsResponses) :
         /\ execution' = [execution EXCEPT !.logs = resp]
         /\ response' = Answer("logs", resp)
    /\ poll' = [poll EXCEPT !.state = "Finished", !.ended = now]
    /\ pc' = "poll_sleep"
    /\ UNCHANGED <<focus, environ, lib, history, DEFAULT_SERVER_PARAMS,
                   health_sites_data, hb_pending, requested,
                   result, args, client_node_list, dataset, params_data, api,
                   all_nodes, now, start_time, files_loaded, files_timeout, files,
                   pending, queue, node, disk>>

\* get_execution_logs() after a finished status
PollLogs ==
    /\ pc = "poll_logs"
    /\ reqs' = Count("logs")
    /\ request' = Query(execution.id, {})
    /\ \E resp \in (IF focus = "inputs" THEN {Text("flower server log")}
                   ELSE LogsResponses) :
         /\ execution' = [execution EXCEPT !.logs = resp]
         /\ response' = Answer("logs", resp)
    /\ poll' = [poll EXCEPT !.state = "Finished", !.ended = now]
    /\ pc' = "settle"
    /\ UNCHANGED <<focus, environ, lib, history, DEFAULT_SERVER_PARAMS,
                   health_sites_data, hb_pending, requested,
                   result, args, client_node_list, dataset, params_data, api,
                   all_nodes, now, start_time, files_loaded, files_timeout, files,
                   pending, queue, node, disk>>

\* variant: the files are asked for as soon as the poller ends
Settle_NoWait ==
    /\ pc = "settle"
    /\ now' = now
    /\ files_loaded' = FALSE
    /\ files_timeout' = FILES_TIMEOUT
    /\ pc' = "manifest"
    /\ UNCHANGED <<focus, environ, lib, history, DEFAULT_SERVER_PARAMS,
                   health_sites_data, hb_pending, requested,
                   result, args, client_node_list, dataset, params_data, api,
                   execution, all_nodes, start_time, poll, files, pending, queue,
                   node, disk, reqs, response, request>>

\* ------------------------------------------- dt4h_flcore, lines 155-175
\* time.sleep(finish_wait), then the set-up of the manifest loop
Settle ==
    /\ pc = "settle"
    /\ now' = now + args.finish_wait
    /\ files_loaded' = FALSE
    /\ files_timeout' = FILES_TIMEOUT
    /\ pc' = "manifest"
    /\ UNCHANGED <<focus, environ, lib, history, DEFAULT_SERVER_PARAMS,
                   health_sites_data, hb_pending, requested,
                   result, args, client_node_list, dataset, params_data, api,
                   execution, all_nodes, start_time, poll, files, pending, queue,
                   node, disk, reqs, response, request>>

Null == [kind |-> "null"]

\* one node's entry of the manifest: a mapping with a files list, a mapping
\* without one, or null
ServerEntries ==
    {Dict("files" :> fl) : fl \in {<<>>, <<"log_server.txt">>,
                                   <<"log_server.txt", "model.pkl">>}}
        \cup {Dict("path" :> Text("/sandbox")), Null}
ClientEntries == {Dict("files" :> <<"model.pkl">>), Dict("path" :> Text("/sandbox"))}

\* the manifest when it is ready: node -> entry, for some of the nodes
ReadyManifests ==
    {Dict(<<>>)}
        \cup {Dict("BSC" :> e) : e \in ServerEntries}
        \cup {Dict("UB" :> e) : e \in ClientEntries}
        \cup {Dict("BSC" :> e @@ "UB" :> c) : e \in ServerEntries, c \in ClientEntries}

\* the manifest when it is not ready: a top-level user_id key
NotReadyManifests ==
    {Dict("user_id" :> Text("u1")),
     Dict("user_id" :> Text("u1") @@ "BSC" :> Dict("files" :> <<"log_server.txt">>))}

\* what data/list_files can give back through _do_get_request
ManifestResponses ==
    ReadyManifests \cup NotReadyManifests
        \cup {List(<<>>), List(<<Dict("user_id" :> Text("u1"))>>),
              List(<<Dict("BSC" :> Dict("files" :> <<"log_server.txt">>))>>),
              Null, ErrorDict}

\* the manifest responses met when collection is not in focus
PlainManifestResponses ==
    {Dict("BSC" :> Dict("files" :> <<"log_server.txt">>)), ErrorDict}

\* the manifest responses met when the budget of the manifest loop is in
\* focus
BudgetManifestResponses ==
    PlainManifestResponses \cup {Dict("user_id" :> Text("u1"))}

\* variant: the manifest counts as loaded when it has a user_id
FilesLoaded_Inverted(fl) == HasKey(fl, "user_id")

\* the readiness test, line 170
FilesLoaded(fl) == ~HasKey(fl, "user_id")

\* variant: the manifest is asked for the server node only
QueryNodes_ServerOnly == {api.server_node}

\* get_execution_file_list, line 298: set([self.server_node] + self.client_nodes)
QueryNodes == ToSet(<<api.server_node>> \o api.client_nodes)

\* one iteration of the manifest loop: get_execution_file_list(), the
\* readiness test, the sleep, the budget, and the loop test
ManifestFetch ==
    /\ pc = "manifest"
    /\ reqs' = Count("list_files")
    /\ request' = Query(execution.id, QueryNodes)
    /\ \E resp \in (CASE focus = "collection" -> ManifestResponses
                     [] focus = "budget" -> BudgetManifestResponses
                     [] OTHER -> PlainManifestResponses) :
         /\ response' = Answer("list_files", resp)
         /\ IF IsList(resp) /\ resp.items = <<>>
            THEN \* file_list[0] raises IndexError, caught at line 167
                 /\ Failure("Failed to get execution files")
                 /\ UNCHANGED <<files, files_loaded, files_timeout, now, pending>>
            ELSE LET fl == IF IsList(resp) THEN resp.items[1] ELSE resp IN
                 IF ~IsDict(fl)
                 THEN \* 'user_id' not in None
                      /\ Raise("TypeError")
                      /\ files' = fl
                      /\ UNCHANGED <<files_loaded, files_timeout, now, pending>>
                 ELSE /\ files' = fl
                      /\ files_loaded' = FilesLoaded(fl)
                      /\ now' = now + POLLING_INTERVAL
                      /\ files_timeout' = files_timeout - POLLING_INTERVAL
                      /\ IF ~files_loaded' /\ files_timeout' > 0
                         THEN pc' = "manifest" /\ UNCHANGED pending
                         ELSE pc' = "download" /\ pending' = all_nodes
                      /\ UNCHANGED result
    /\ UNCHANGED <<focus, environ, lib, history, DEFAULT_SERVER_PARAMS,
                   health_sites_data, hb_pending, requested,
                   args, client_node_list, dataset, params_data, api, execution,
                   all_nodes, start_time, poll, queue, node, disk>>

\* variant: a node without files ends the loop
DownloadNextNode_SkipEndsLoop ==
    /\ pc = "download"
    /\ queue = <<>>
    /\ IF pending = {}
       THEN /\ pc' = "report"
            /\ UNCHANGED <<result, pending, queue, node>>
       ELSE \E n \in pending :
              /\ node' = n
              /\ IF ~HasKey(files, n)
                 THEN pending' = {} /\ UNCHANGED <<pc, result, queue>>
                 ELSE IF ~IsDict(files.d[n])
                 THEN Raise("TypeError") /\ pending' = pending \ {n} /\ UNCHANGED queue
                 ELSE IF ~HasKey(files.d[n], "files")
                 THEN pending' = {} /\ UNCHANGED <<pc, result, queue>>
                 ELSE /\ queue' = files.d[n].d["files"]
                      /\ pending' = pending \ {n}
                      /\ UNCHANGED <<pc, result>>
    /\ UNCHANGED <<focus, environ, lib, history, DEFAULT_SERVER_PARAMS,
                   health_sites_data, hb_pending, requested,
                   args, client_node_list, dataset, params_data, api, execution,
                   all_nodes, now, start_time, poll, files_loaded, files_timeout,
                   files, disk, reqs, response, request>>

\* ------------------------------------------- dt4h_flcore, lines 179-193
\* the head of `for node in all_nodes`: the next node of the set, in the
\* order the set happens to iterate, or the end of the loop
DownloadNextNode ==
    /\ pc = "download"
    /\ queue = <<>>
    /\ IF pending = {}
       THEN /\ pc' = "report"
            /\ UNCHANGED <<result, pending, queue, node>>
       ELSE \E n \in pending :
              /\ pending' = pending \ {n}
              /\ node' = n
              /\ IF ~HasKey(files, n)
                 THEN UNCHANGED <<pc, result, queue>>
                 ELSE IF ~IsDict(files.d[n])
                 THEN \* 'files' not in None
                      Raise("TypeError") /\ UNCHANGED queue
                 ELSE IF ~HasKey(files.d[n], "files")
                 THEN UNCHANGED <<pc, result, queue>>
                 ELSE queue' = files.d[n].d["files"] /\ UNCHANGED <<pc, result>>
    /\ UNCHANGED <<focus, environ, lib, history, DEFAULT_SERVER_PARAMS,
                   health_sites_data, hb_pending, requested,
                   args, client_node_list, dataset, params_data, api, execution,
                   all_nodes, now, start_time, poll, files_loaded, files_timeout,
                   files, disk, reqs, response, request>>

Bytes(n) == [kind |-> "bytes", n |-> n]

\* one more download request for the pair k
Requested(k) ==
    [p \in DOMAIN requested \cup {k} |->
        IF p = k THEN (IF k \in DOMAIN requested THEN requested[k] ELSE 0) + 1
        ELSE requested[p]]

\* what data/download_files can give back through _do_get_request with
\* output='binary'
DownloadResponses == {Bytes(7), Bytes(0), ErrorDict}

Write(k, v) == [p \in DOMAIN disk \cup {k} |-> IF p = k THEN v ELSE disk[p]]

\* variant: a download that gives nothing to write ends the node's loop
DownloadFile_FailureEndsNode ==
    /\ pc = "download"
    /\ queue # <<>>
    /\ reqs' = Count("download")
    /\ request' = Query(execution.id, {node})
    /\ requested' = Requested(<<node, Head(queue)>>)
    /\ \E resp \in (IF focus = "collection" THEN DownloadResponses
                   ELSE {Bytes(7)}),
          can_open \in (IF focus = "collection" THEN BOOLEAN ELSE {TRUE}) :
         /\ response' = Answer("download", resp)
         /\ queue' = IF resp.kind = "bytes" /\ Truthy(resp) /\ can_open
                     THEN Tail(queue) ELSE <<>>
         /\ disk' = IF Truthy(resp) /\ can_open
                    THEN Write(<<node, Head(queue)>>,
                               IF resp.kind = "bytes" THEN resp ELSE Bytes(0))
                    ELSE disk
    /\ UNCHANGED <<focus, environ, lib, history, DEFAULT_SERVER_PARAMS,
                   health_sites_data, hb_pending,
                   pc, result, args, client_node_list, dataset, params_data, api,
                   execution, all_nodes, now, start_time, poll, files_loaded,
                   files_timeout, files, pending, node>>

\* the body of `for file in files[node]['files']`: download_file() and the
\* write to {output_path}/{node}_{file}; can_open is whether open() succeeds
DownloadFile ==
    /\ pc = "download"
    /\ queue # <<>>
    /\ reqs' = Count("download")
    /\ request' = Query(execution.id, {node})
    /\ requested' = Requested(<<node, Head(queue)>>)
    /\ queue' = Tail(queue)
    /\ \E resp \in (IF focus = "collection" THEN DownloadResponses
                   ELSE {Bytes(7)}),
          can_open \in (IF focus = "collection" THEN BOOLEAN ELSE {TRUE}) :
         /\ response' = Answer("download", resp)
         /\ disk' = IF Truthy(resp) /\ can_open
                    THEN \* open(..., 'wb') truncates; f.write() of a
                         \* mapping raises TypeError, caught at line 192
                         Write(<<node, Head(queue)>>,
                               IF resp.kind = "bytes" THEN resp ELSE Bytes(0))
                    ELSE disk
    /\ UNCHANGED <<focus, environ, lib, history, DEFAULT_SERVER_PARAMS,
                   health_sites_data, hb_pending,
                   pc, result, args, client_node_list, dataset, params_data, api,
                   execution, all_nodes, now, start_time, poll, files_loaded,
                   files_timeout, files, pending, node>>

\* variant: the result carries the status in place of the logs
Success_StatusAsLogs ==
    [status |-> "success", execution_id |-> execution.id,
     execution_logs |-> execution.status, files |-> files]

\* ------------------------------------------- dt4h_flcore, lines 195-213
Success ==
    [status |-> "success", execution_id |-> execution.id,
     execution_logs |-> execution.logs, files |-> files]

\* report generation and the return.  stale: output_path already holds a
\* {server}_log_server.txt; parses: FLCoreLogParser and HTMLReportGenerator
\* get through the file.
Report ==
    /\ pc = "report"
    /\ \E stale \in BOOLEAN, parses \in BOOLEAN :
         LET exists == stale \/ <<api.server_node, "log_server.txt">> \in DOMAIN disk
         IN  IF exists /\ ~parses THEN Raise("ReportError") ELSE Return(Success)
    /\ UNCHANGED <<focus, environ, lib, history, DEFAULT_SERVER_PARAMS,
                   health_sites_data, hb_pending, requested,
                   args, client_node_list, dataset, params_data, api, execution,
                   all_nodes, now, start_time, poll, files_loaded, files_timeout,
                   files, pending, queue, node, disk, reqs, response, request>>

\* dt4h_flcore is called again in the same process, with the same arguments
\* and environment, after the first call ended: its locals start afresh
\* (line 48 makes a new FEMAPIClient), the module-level state stays.  The
\* clock and the request counts are those of the call.
SecondCall ==
    /\ pc = "done"
    /\ history.run = 1
    /\ focus \in {"inputs", "health"}
    /\ history' = [history EXCEPT
                     !.run = 2,
                     !.selected = [server_node |-> api.server_node,
                                   client_nodes |-> api.client_nodes]]
    /\ pc' = "start"
    /\ result' = [status |-> "none"]
    /\ client_node_list' = args.client_node_list
    /\ dataset' = PyNone
    /\ params_data' = PyNone
    /\ api' = [token |-> PyNone, server_node |-> "", client_nodes |-> <<>>]
    /\ health_sites_data' = [n \in {} |-> PyNone]
    /\ hb_pending' = <<>>
    /\ requested' = [k \in {} |-> 0]
    /\ execution' = PyNone
    /\ all_nodes' = {}
    /\ now' = 0
    /\ start_time' = 0
    /\ poll' = [state |-> "Idle", finished |-> "false", ended |-> 0]
    /\ files_loaded' = FALSE
    /\ files_timeout' = args.files_timeout
    /\ files' = PyNone
    /\ pending' = {}
    /\ queue' = <<>>
    /\ node' = ""
    /\ disk' = [k \in {} |-> PyNone]
    /\ reqs' = [e \in Endpoints |-> 0]
    /\ response' = Answer("none", PyNone)
    /\ request' = Query(PyNone, {})
    /\ UNCHANGED <<focus, environ, lib, args, DEFAULT_SERVER_PARAMS>>

\* the variables of a run of dt4h_flcore
run_vars == <<pc, result, args, client_node_list, dataset, params_data, api,
              execution, all_nodes, now, start_time, poll, files_loaded,
              files_timeout, files, pending, queue, node, disk, reqs, response,
              health_sites_data, hb_pending, requested, request>>

LibReturn(outcome, http) ==
    lib' = [lib EXCEPT !.pc = "done", !.outcome = outcome, !.http = http]

\* FEMAPIClient.submit_tool called directly, with props['wait_for_job']
\* false: lines 181-211
SubmitToolCall ==
    /\ lib.pc = "call"
    /\ lib.fn = "submit_tool"
    /\ \E resp \in SubmitResponses :
         LibReturn(IF SubmissionOk(resp) THEN "returned" ELSE "Exception",
                   lib.http + 1)
    /\ UNCHANGED <<focus, environ, history, DEFAULT_SERVER_PARAMS, run_vars>>

\* execute_tool of dt4h_demonstrator.py, lines 81-128
ExecuteTool ==
    /\ lib.pc = "call"
    /\ lib.fn = "execute_tool"
    /\ IF lib.tool_name = ""
       THEN LibReturn("ValueError", lib.http)
       ELSE \E resp \in SubmitResponses :
              LibReturn(IF SubmissionOk(resp) THEN "returned" ELSE "Exception",
                        lib.http + 1)
    /\ UNCHANGED <<focus, environ, history, DEFAULT_SERVER_PARAMS, run_vars>>

\* DT4HGenericTool.run, lines 37-81: validation, authentication and node
\* selection.  With the health check disabled the server node is set to
\* the client list, and set([server_node] + client_nodes) raises TypeError
\* (a list is unhashable); with it enabled run_health_check() calls
\* node_heartbeat(None), which raises TypeError.
GenericRun ==
    /\ lib.pc = "call"
    /\ lib.fn = "DT4HGenericTool.run"
    /\ IF lib.tool_name = "" \/ lib.server_node = "" \/ lib.client_node_list = <<>>
       THEN LibReturn("failure", lib.http)
       ELSE \E resp \in (IF Exchanges(environ) THEN TokenResponses ELSE {PyNone}) :
                LET http == IF Exchanges(environ) THEN lib.http + 1 ELSE lib.http
                    tok == authenticate(environ, resp)
                IN  IF tok = PyNone THEN LibReturn("failure", http)
                    ELSE IF lib.health_check_path = ""
                    THEN lib' = [lib EXCEPT
                                   !.pc = "done", !.outcome = "TypeError",
                                   !.http = http,
                                   !.api = [server_node |-> List(lib.client_node_list),
                                            client_nodes |-> List(lib.client_node_list)]]
                    ELSE LibReturn("TypeError", http)
    /\ UNCHANGED <<focus, environ, history, DEFAULT_SERVER_PARAMS, run_vars>>

\* node_heartbeat of demo/vre_template_tool/fem_api_client.py, lines
\* 51-68, called with a list of nodes: one iteration of its loop.  A list
\* response is replaced by its first element outside the try, so an empty
\* list raises IndexError out of the call.
DemoNodeHeartbeat ==
    /\ lib.fn = "node_heartbeat"
    /\ lib.pc \in {"call", "loop"}
    /\ LET todo == IF lib.pc = "call" THEN lib.client_node_list ELSE hb_pending IN
       IF todo = <<>>
       THEN /\ LibReturn("returned", lib.http)
            /\ UNCHANGED <<health_sites_data, hb_pending, response, request>>
       ELSE /\ hb_pending' = Tail(todo)
            /\ request' = Query(PyNone, {Head(todo)})
            /\ \E resp \in HeartbeatResponses :
                 /\ response' = Answer("heartbeat", resp)
                 /\ IF IsList(resp) /\ resp.items = <<>>
                    THEN /\ LibReturn("IndexError", lib.http + 1)
                         /\ UNCHANGED health_sites_data
                    ELSE /\ health_sites_data' =
                              Record(Head(todo),
                                     IF IsList(resp) THEN resp.items[1] ELSE resp)
                         /\ lib' = [lib EXCEPT
                                       !.pc = IF Tail(todo) = <<>> THEN "done" ELSE "loop",
                                       !.outcome = IF Tail(todo) = <<>> THEN "returned"
                                                   ELSE "none",
                                       !.http = @ + 1]
    /\ UNCHANGED <<focus, environ, history, DEFAULT_SERVER_PARAMS, pc, result, args,
                   client_node_list, dataset, params_data, api, execution,
                   all_nodes, now, start_time, poll, files_loaded, files_timeout,
                   files, pending, queue, node, disk, reqs, requested>>

\* what happens to a request on the network: a 2xx response, a response
\* with another status, or no response at all
Wire == {"ok", "status_error", "network_failure"}

\* _do_get_request and _do_post_request, lines 338-369: raise_for_status()
\* and the network's exceptions are requests.RequestException, which is
\* caught and turned into the error value
Transport(wire, body) ==
    [outcome |-> "returned", value |-> IF wire = "ok" THEN body ELSE ErrorDict]

\* get_execution_logs of dt4h_demonstrator.py, lines 158-169: requests.get
\* with no try and no look at the status
get_execution_logs(wire) ==
    CASE wire = "ok" -> [outcome |-> "returned", value |-> Text("flower server log")]
      [] wire = "status_error" -> [outcome |-> "returned", value |-> Text("Not Found")]
      [] OTHER -> [outcome |-> "ConnectionError", value |-> PyNone]

\* download_file of dt4h_demonstrator.py, lines 187-206: requests.get with
\* no try, and an Exception raised for a status other than 200
download_file(wire) ==
    CASE wire = "ok" -> [outcome |-> "returned", value |-> Bytes(7)]
      [] wire = "status_error" -> [outcome |-> "Exception", value |-> PyNone]
      [] OTHER -> [outcome |-> "ConnectionError", value |-> PyNone]

\* one request made by calling the transport, or one of the functions that
\* go to the network themselves
RequestCall ==
    /\ lib.pc = "call"
    /\ lib.fn \in {"_do_get_request", "_do_post_request", "get_execution_logs",
                   "download_file"}
    /\ \E wire \in Wire :
         LET r == CASE lib.fn = "get_execution_logs" -> get_execution_logs(wire)
                    [] lib.fn = "download_file" -> download_file(wire)
                    [] OTHER -> Transport(wire, Dict("status" :> Text("success")))
         IN  lib' = [lib EXCEPT !.pc = "done", !.outcome = r.outcome,
                                !.value = r.value, !.wire = wire, !.http = @ + 1]
    /\ UNCHANGED <<focus, environ, history, DEFAULT_SERVER_PARAMS, run_vars>>

\* what dt4h_flcore gives back to run_flcore_demo
ResultDict(status) == Dict("status" :> Text(status))

\* the dt4h_flcore that tool.dt4h_flcore is bound to: the copy in tool/ has
\* no files_timeout parameter, the one in dt4h_flcore_tool/ has it
Orchestrators == {"tool/dt4h_flcore.py", "dt4h_flcore_tool/dt4h_flcore.py"}

\* myTool.run_flcore_demo, lines 237-322, with the required configuration
\* and input keys present and no variables input: the outcome and the value
\* returned, for a configuration with do_health_check, demo_mode ("absent"
\* when the key is not there), an orchestrator and the result r the
\* orchestrator gives when its call gets through.  health_check_path is
\* assigned under 'if do_check_health' only, and read at line 269.
run_flcore_demo(do_health_check, demo_mode, orchestrator, r) ==
    CASE ~do_health_check -> [outcome |-> "UnboundLocalError", value |-> PyNone]
      [] demo_mode = "absent" -> [outcome |-> "KeyError", value |-> PyNone]
      [] demo_mode = "on" -> [outcome |-> "returned", value |-> ResultDict("success")]
      [] orchestrator = "tool/dt4h_flcore.py" ->
            [outcome |-> "TypeError", value |-> PyNone]
      [] OTHER -> [outcome |-> "returned", value |-> r]

\* run_flcore_demo called directly
RunFlcoreDemo ==
    /\ lib.pc = "call"
    /\ lib.fn = "run_flcore_demo"
    /\ \E o \in Orchestrators, st \in {"success", "failure"} :
         LET r == run_flcore_demo(lib.health_check_path # "", lib.demo_mode, o,
                                  ResultDict(st))
         IN  lib' = [lib EXCEPT !.pc = "done", !.outcome = r.outcome,
                                !.value = r.value]
    /\ UNCHANGED <<focus, environ, history, DEFAULT_SERVER_PARAMS, run_vars>>

\* myTool.run, lines 92-199: the value of run_flcore_demo is not kept (line
\* 106), the expected outputs are looked up, and every exception becomes
\* Exception("VRE tool run failed. See logs.").  value keeps what
\* run_flcore_demo returned.
MyToolRun ==
    /\ lib.pc = "call"
    /\ lib.fn = "myTool.run"
    /\ \E o \in Orchestrators, st \in {"success", "failure"} :
         LET r == run_flcore_demo(lib.health_check_path # "", lib.demo_mode, o,
                                  ResultDict(st))
         IN  lib' = [lib EXCEPT
                       !.pc = "done",
                       !.outcome = IF r.outcome = "returned" THEN "returned"
                                   ELSE "Exception",
                       !.value = r.value]
    /\ UNCHANGED <<focus, environ, history, DEFAULT_SERVER_PARAMS, run_vars>>

\* the orchestrators that save the heartbeat data to a file
HealthWriters ==
    {"dt4h_flcore_tool/dt4h_flcore.py", "tool/dt4h_flcore.py",
     "demo/dt4h_flcore.py", "demo/dt4h_demonstrator.py"}

\* the write of the health file in an orchestrator, for a path open() can
\* write to or not: dt4h_flcore.py lines 101-106 (and the copy in tool/)
\* catch the exception and log it, demo/dt4h_flcore.py lines 83-85 and
\* dt4h_demonstrator.py lines 262-264 have no try, so the exception leaves
\* the orchestrator.  written is whether the file holds the data.
save_health_data(orchestrator, can_write) ==
    CASE can_write -> [outcome |-> "continued", written |-> TRUE]
      [] orchestrator \in {"dt4h_flcore_tool/dt4h_flcore.py", "tool/dt4h_flcore.py"} ->
            [outcome |-> "continued", written |-> FALSE]
      [] OTHER -> [outcome |-> "OSError", written |-> FALSE]

\* an orchestrator at its write of the health file, the heartbeats heard;
\* value keeps whether the file was written
SaveHealthData ==
    /\ lib.pc = "call"
    /\ lib.fn = "save_health_data"
    /\ \E o \in HealthWriters :
         LET r == save_health_data(o, lib.health_check_path # UnwritablePath)
         IN  lib' = [lib EXCEPT !.pc = "done", !.outcome = r.outcome,
                                !.value = IF r.written THEN Text("written")
                                          ELSE PyNone]
    /\ UNCHANGED <<focus, environ, history, DEFAULT_SERVER_PARAMS, run_vars>>

\* JOB_TIMEOUT of dt4h_demonstrator.py, line 16, in the units of the runs
\* explored
DEMO_JOB_TIMEOUT == MaxJobTimeout

\* what inquiry_execution_status gives the loop of dt4h_demonstrator: a
\* response, the error value of do_get_request, or an exception that is
\* not a requests.RequestException (a body that is not JSON)
DemoFetches == PlainStatusResponses \cup {ErrorDict, Text("raise")}

\* dt4h_demonstrator, lines 313-330, after the execution was started: one
\* iteration of the polling loop.  An exception of the fetch is logged and
\* followed by 'continue', which skips the timeout test.  elapsed is
\* time.time() - start_time; above JOB_TIMEOUT it is kept as one of two
\* values that follow each other (the test reads only whether it is above,
\* and the clock never stands still); the requests are not counted.
DemonstratorPoll ==
    /\ lib.fn = "dt4h_demonstrator"
    /\ lib.pc \in {"call", "loop"}
    /\ \E fetch \in DemoFetches :
         LET t == IF lib.elapsed <= DEMO_JOB_TIMEOUT
                  THEN lib.elapsed + POLLING_INTERVAL
                  ELSE IF lib.elapsed = DEMO_JOB_TIMEOUT + 1
                  THEN DEMO_JOB_TIMEOUT + 2 ELSE DEMO_JOB_TIMEOUT + 1
         IN  CASE fetch = Text("raise") ->
                    lib' = [lib EXCEPT !.pc = "loop", !.elapsed = t]
               [] fetch # Text("raise") /\ check_job_finished(fetch) = "true" ->
                    \* get_execution_logs, lines 158-169, has no try: an
                    \* exception of the request (PyNone) leaves the function
                    \E logs \in {Text("flower server log"), Text(""), PyNone} :
                        lib' = [lib EXCEPT
                                  !.pc = "done",
                                  !.outcome = IF logs = PyNone THEN "ConnectionError"
                                              ELSE "Finished",
                                  !.elapsed = t, !.value = logs]
               [] OTHER ->
                    IF t > DEMO_JOB_TIMEOUT
                    THEN lib' = [lib EXCEPT !.pc = "done", !.outcome = "TimedOut",
                                            !.elapsed = t, !.value = SENTINEL]
                    ELSE lib' = [lib EXCEPT !.pc = "loop", !.elapsed = t]
    /\ UNCHANGED <<focus, environ, history, DEFAULT_SERVER_PARAMS, run_vars>>

Next ==
    \/ Validate
    \/ Authenticate
    \/ LoadDataset
    \/ SelectNodes
    \/ HeartbeatServer
    \/ HeartbeatClient
    \/ FilterClients
    \/ BuildParams
    \/ Submit
    \/ PollSleep
    \/ PollStatus
    \/ PollLogs
    \/ Settle
    \/ ManifestFetch
    \/ DownloadNextNode
    \/ DownloadFile
    \/ Report
    \/ SecondCall
    \/ SubmitToolCall
    \/ ExecuteTool
    \/ GenericRun
    \/ DemoNodeHeartbeat
    \/ RequestCall
    \/ RunFlcoreDemo
    \/ MyToolRun
    \/ SaveHealthData
    \/ DemonstratorPoll

Spec == Init /\ [][Next]_vars

\* the run goes on as long as it has a step to take: the process is not
\* stopped from outside, and the clock advances with every sleep
LiveSpec == Spec /\ WF_vars(Next)

\* ===================================================================
\* Properties
\* ===================================================================

\* the Finished condition: a non-empty sequence whose entries all have a
\* status other than 'running'
DoneStatus(v) ==
    /\ IsList(v)
    /\ v.items # <<>>
    /\ \A i \in DOMAIN v.items :
         "status" \in DOMAIN v.items[i] /\ v.items[i]["status"] # "running"

\* a manifest that is not ready: a top-level user_id key
NotReady(v) == HasKey(v, "user_id")

\* a submission response without status 'success' or without an
\* execution_id
Rejected(body) ==
    \/ ~HasKey(body, "execution_id")
    \/ ~HasKey(body, "status")
    \/ body.d["status"] # Text("success")

Elapsed == poll.ended - start_time

\* C1: every run of dt4h_flcore ends with a result whose status is 'success'
\* or 'failure'; no exception leaves it.
C1_NoExceptionEscapes ==
    pc = "done" => result.status \in {"success", "failure"}

\* C2: when the submission response lacks status 'success' or an
\* execution_id (a transport failure included), the run has ended with a
\* failure result and no status, logs, list_files or download request is
\* ever issued.
C2_SubmitFailureAborts ==
    (response.endpoint = "submit" /\ Rejected(response.body)) =>
        /\ pc = "done"
        /\ result.status = "failure"
        /\ execution = PyNone
        /\ \A e \in {"status", "logs", "list_files", "download"} : reqs[e] = 0

C2_Witness ==
    /\ response = Answer("submit", ErrorDict)
    /\ pc = "done"
    /\ reqs["submit"] = 1

Unfinished(v) == (IsList(v) /\ ~DoneStatus(v)) \/ v = ErrorDict

FailedFetch(v) == v = ErrorDict \/ v = List(<<>>)

\* C7: after a failed or empty status fetch the job is not judged finished
\* and the run has no result: the poller is about to sleep poll_interval
\* and fetch again, unless job_timeout has elapsed and it is TimedOut.
C7_FailedFetchKeepsPolling ==
    /\ []((response.endpoint = "status" /\ FailedFetch(response.body)) =>
            /\ poll.finished = "false"
            /\ poll.state # "Finished"
            /\ result.status = "none")
    /\ [][/\ (pc = "poll_status" /\ FailedFetch(response'.body)) =>
                (/\ result' = result
                 /\ \/ /\ pc' = "poll_sleep"
                       /\ poll'.state = "Polling"
                       /\ now' - start_time <= args.job_timeout
                    \/ /\ pc' = "settle"
                       /\ poll'.state = "TimedOut"
                       /\ now' - start_time > args.job_timeout)
          /\ pc = "poll_sleep" =>
                (pc' = "poll_status" /\ now' = now + POLLING_INTERVAL)
          /\ pc = "poll_status" => reqs'["status"] = reqs["status"] + 1]_vars

C7_Witness ==
    /\ response = Answer("status", ErrorDict)
    /\ pc = "poll_sleep"
    /\ reqs["status"] = 2

Unwrapped(b) == IF IsList(b) /\ b.items # <<>> THEN b.items[1] ELSE b

\* the files still to download are a tail of the manifest's list for the
\* current node
IsTail(q, s) == \E k \in 0..Len(s) : q = SubSeq(s, k + 1, Len(s))

\* C9: while the manifest fetched is not ready and budget remains, the
\* collector waits poll_interval and fetches again; no download request is
\* issued during manifest polling and no manifest request after it, and
\* the downloads are those of the last manifest fetched.  Two not-ready
\* responses and a valid one thus make three manifest requests.
C9_NotReadyManifestRetried ==
    /\ [](/\ pc = "manifest" => reqs["download"] = 0
          /\ (pc = "download" /\ queue # <<>>) =>
                (/\ response.endpoint \in {"list_files", "download"}
                 /\ HasKey(files, node)
                 /\ IsTail(queue, files.d[node].d["files"])))
    /\ [][/\ (/\ pc = "manifest"
              /\ NotReady(Unwrapped(response'.body))
              /\ files_timeout - POLLING_INTERVAL > 0) =>
                (/\ pc' = "manifest"
                 /\ now' = now + POLLING_INTERVAL
                 /\ reqs'["list_files"] = reqs["list_files"] + 1
                 /\ reqs'["download"] = 0)
          /\ (pc = "manifest" /\ pc' = "download") =>
                (/\ reqs'["list_files"] = reqs["list_files"] + 1
                 /\ files' = Unwrapped(response'.body)
                 /\ pending' = all_nodes)
          /\ pc \notin {"manifest", "done"} =>
                reqs'["list_files"] = reqs["list_files"]]_vars

C9_Witness ==
    /\ pc = "download"
    /\ reqs["list_files"] = 3
    /\ ~NotReady(files)
    /\ queue # <<>>
    /\ reqs["download"] = 0

\* C10: when the manifest is still not ready as the budget runs out, the
\* run goes through the download phase and returns status 'success'.
C10_ExhaustedBudgetSucceeds ==
    (pc = "done" /\ files_timeout <= 0 /\ NotReady(files)) =>
        result.status = "success"

\* C11: with files_timeout = T the run issues at most ceil(T / poll
\* interval) manifest requests.
C11_BudgetIsCallerSupplied ==
    reqs["list_files"] * POLLING_INTERVAL < args.files_timeout + POLLING_INTERVAL

\* C12: a manifest fetch that failed in the transport is not taken as the
\* manifest: while budget remains the collector is about to fetch again,
\* and the download phase is never entered with the error value as files.
C12_FailedManifestFetchRetried ==
    /\ (response = Answer("list_files", ErrorDict) /\ files_timeout > 0) =>
          (pc = "manifest" /\ result.status = "none")
    /\ pc \in {"download", "report"} => files # ErrorDict

\* the file names the manifest lists for node n
Listed(n) ==
    IF HasKey(files, n) /\ HasKey(files.d[n], "files")
    THEN files.d[n].d["files"] ELSE <<>>

\* node n has no entry in the manifest, or an entry (a mapping) without a
\* files key
NoFiles(n) ==
    \/ ~HasKey(files, n)
    \/ IsDict(files.d[n]) /\ ~HasKey(files.d[n], "files")

\* every entry the manifest has for a node of all_nodes is a mapping
EntriesAreMappings ==
    IsDict(files) /\ \A n \in all_nodes : HasKey(files, n) => IsDict(files.d[n])

C15_MissingInputNoRequest ==
    (/\ pc = "done"
     /\ \/ args.tool_name = ""
        \/ args.server_node = ""
        \/ args.client_node_list = <<>> /\ get_clients(dataset) = <<>>) =>
        (result.status = "failure" /\ \A e \in Endpoints : reqs[e] = 0)

\* C16: submit_tool and execute_tool called with an empty tool name raise
\* before any HTTP request.
C16_EmptyToolNameNoRequest ==
    (/\ lib.fn \in {"submit_tool", "execute_tool"}
     /\ lib.pc = "done"
     /\ lib.tool_name = "") =>
        (lib.http = 0 /\ lib.outcome = "ValueError")

\* the run has no token: none was supplied, and there are no credentials
\* or the token endpoint's response has no access_token
NoToken ==
    /\ environ.FEM_ACCESS_TOKEN = ""
    /\ \/ environ.FEM_USER_NAME = ""
       \/ environ.FEM_USER_PASSWORD = ""
       \/ response.endpoint = "token" /\ ~HasKey(response.body, "access_token")

\* C17: a supplied token is used and no token request is made; otherwise
\* user name and password are posted to the token endpoint, once; a run
\* left without a token ends with a failure result and issues no other
\* request.
C17_TokenOrFailure ==
    /\ [](/\ environ.FEM_ACCESS_TOKEN # "" =>
               (/\ reqs["token"] = 0
                /\ pc \notin {"start", "auth", "idle"} /\ args.tool_name # ""
                     /\ args.server_node # "" =>
                       api.token = Text(environ.FEM_ACCESS_TOKEN))
          /\ (pc \notin {"start", "auth", "idle"} /\ NoToken) =>
               (/\ pc = "done"
                /\ result.status = "failure"
                /\ \A e \in Endpoints \ {"token"} : reqs[e] = 0))
    /\ [][/\ pc = "auth" =>
               /\ reqs'["token"] = IF /\ environ.FEM_ACCESS_TOKEN = ""
                                      /\ environ.FEM_USER_NAME # ""
                                      /\ environ.FEM_USER_PASSWORD # ""
                                   THEN 1 ELSE 0
               /\ (reqs'["token"] = 1 /\ HasKey(response'.body, "access_token")) =>
                     (pc' = "dataset" /\ api'.token = response'.body.d["access_token"])
          /\ pc \notin {"auth", "done"} => reqs'["token"] = reqs["token"]]_vars

C17_Witness ==
    /\ response = Answer("token", Dict("detail" :> Text("denied")))
    /\ pc = "done"
    /\ result.status = "failure"
    /\ reqs["token"] = 1

\* C18: with the health check disabled, node selection issues no heartbeat
\* request and leaves the caller's server node and client list as the
\* nodes of the submission, in dt4h_flcore and in DT4HGenericTool.run.
C18_DisabledHealthCheckVerbatim ==
    /\ (/\ args.health_check_path = ""
        /\ pc \notin {"start", "auth", "dataset", "select", "idle", "done"}) =>
          (/\ reqs["heartbeat"] = 0
           /\ api.server_node = args.server_node
           /\ api.client_nodes = client_node_list
           /\ all_nodes = {args.server_node} \cup ToSet(client_node_list))
    /\ (/\ lib.fn = "DT4HGenericTool.run"
        /\ lib.pc = "done"
        /\ lib.health_check_path = ""
        /\ lib.outcome # "failure") =>
          (/\ lib.outcome = "returned"
           /\ lib.api.server_node = Text(lib.server_node)
           /\ lib.api.client_nodes = List(lib.client_node_list))

\* the record of a heartbeat response: the first element of a list, the
\* response itself otherwise; none for an empty list
HeartbeatRecord(b) ==
    IF IsList(b) THEN (IF b.items = <<>> THEN PyNone ELSE b.items[1]) ELSE b

StateRunning(r) == HasKey(r, "state") /\ r.d["state"] = Text("running")

HealthCheckEnabled == args.health_check_path # ""

\* C19: with the health check enabled, the server node is selected exactly
\* when the record of its heartbeat response has state 'running', the
\* record kept for a client has state 'running' exactly when the record of
\* its response has, and every selected client is a node of the caller's
\* list whose record has state 'running'.
C19_OnlyRunningNodesSelected ==
    /\ [](HealthCheckEnabled =>
            \A i \in DOMAIN api.client_nodes :
              /\ api.client_nodes[i] \in ToSet(client_node_list)
              /\ api.client_nodes[i] \in DOMAIN health_sites_data
              /\ StateRunning(health_sites_data[api.client_nodes[i]]))
    /\ [][/\ (pc = "select" /\ HealthCheckEnabled) =>
               /\ api'.server_node =
                     IF StateRunning(HeartbeatRecord(response'.body))
                     THEN args.server_node ELSE ""
               /\ api'.client_nodes = <<>>
          /\ pc = "hb_clients" =>
               (StateRunning(health_sites_data'[Head(hb_pending)])
                  <=> StateRunning(HeartbeatRecord(response'.body)))
          /\ pc \in {"hb_clients", "hb_filter"} => api'.server_node = api.server_node
          /\ pc \notin {"select", "hb_clients", "done", "idle"} =>
               health_sites_data' = health_sites_data
          /\ pc \notin {"select", "hb_filter", "done"} =>
               api'.client_nodes = api.client_nodes]_vars

C19_Witness ==
    /\ HealthCheckEnabled
    /\ pc = "params"
    /\ client_node_list = <<"BSC", "UB">>
    /\ api.client_nodes = <<"UB">>
    /\ health_sites_data["BSC"] = Dict("state" :> Text("stopped"))

\* C20: with the health check enabled, a run whose server node was not
\* selected, or none of whose clients has a record with state 'running',
\* ends at node selection with a failure result; no submission request is
\* issued without a selected server and a selected client.
C20_NotEnoughActiveNodesFails ==
    /\ []((HealthCheckEnabled /\ reqs["submit"] >= 1) =>
            (api.server_node = args.server_node /\ api.client_nodes # <<>>))
    /\ [][(/\ pc = "hb_filter"
           /\ \/ api.server_node = ""
              \/ \A i \in DOMAIN client_node_list :
                   ~StateRunning(health_sites_data[client_node_list[i]])) =>
             (/\ pc' = "done"
              /\ result'.status = "failure"
              /\ reqs' = reqs)]_vars

C20_Witness ==
    /\ HealthCheckEnabled
    /\ pc = "done"
    /\ result.status = "failure"
    /\ api.server_node = "BSC"
    /\ api.client_nodes = <<>>
    /\ \A n \in DOMAIN health_sites_data : Truthy(health_sites_data[n])
    /\ reqs["heartbeat"] = 3

\* ------------------------------------------------------------------ C21
\* every node of the caller's list has been asked for its heartbeat
HeartbeatsDone ==
    /\ reqs["heartbeat"] = 1 + Len(client_node_list)
    /\ ToSet(client_node_list) \subseteq DOMAIN health_sites_data

\* C21: with the health check enabled, a run fails at node selection only
\* when the server was not selected or no client has a record with state
\* 'running'; a client without heartbeat data does not fail a run that has
\* a running server and a running client.
C21_NoDataClientIsInactive ==
    (/\ HealthCheckEnabled
     /\ HeartbeatsDone
     /\ pc = "done"
     /\ result.status = "failure"
     /\ reqs["submit"] = 0) =>
        \/ api.server_node = ""
        \/ \A i \in DOMAIN client_node_list :
              ~StateRunning(health_sites_data[client_node_list[i]])

\* ------------------------------------------------------------------ C22
\* C22: node_heartbeat over a list of nodes issues one request per node and
\* records every node, whatever the responses are, and does not raise:
\* both as dt4h_flcore calls it and called directly.
C22_OneHeartbeatPerNode ==
    /\ pc = "hb_filter" => HeartbeatsDone
    /\ (lib.fn = "node_heartbeat" /\ lib.pc = "done") =>
          /\ lib.outcome = "returned"
          /\ lib.http = Len(lib.client_node_list)
          /\ DOMAIN health_sites_data = ToSet(lib.client_node_list)

\* ------------------------------------------------------------------ C23
\* the node the latest request was about
Asked == CHOOSE n \in request.nodes : TRUE

\* C23: after a heartbeat response the node has a record: the first element
\* of a list response (an empty first element may be replaced by a record
\* without state), the response itself when it is not a list, and for an
\* empty list a record without state.
C23_HeartbeatShapeNormalised ==
    response.endpoint = "heartbeat" =>
        /\ Asked \in DOMAIN health_sites_data
        /\ LET b == response.body
               r == health_sites_data[Asked]
           IN  /\ (IsList(b) /\ b.items # <<>>) =>
                     \/ r = b.items[1]
                     \/ b.items[1] = Dict(<<>>) /\ ~HasKey(r, "state")
               /\ ~IsList(b) => r = b
               /\ (IsList(b) /\ b.items = <<>>) => ~HasKey(r, "state")

\* ------------------------------------------------------------------ C24
\* the position of a call is past node selection
SelectionMade ==
    pc \notin {"idle", "start", "auth", "dataset", "select", "hb_clients", "hb_filter"}

\* C24: a second call that gets the heartbeat responses of the first selects
\* the same server node and the same client list as the first.
C24_SelectionIsIdempotent ==
    (HealthCheckEnabled /\ history.run = 2 /\ SelectionMade) =>
        /\ api.server_node = history.selected.server_node
        /\ api.client_nodes = history.selected.client_nodes

C24_Witness ==
    /\ HealthCheckEnabled
    /\ history.run = 2
    /\ pc = "params"
    /\ client_node_list = <<"BSC", "UB">>
    /\ history.heartbeats[2] = List(<<Dict("state" :> Text("stopped"))>>)
    /\ api.server_node = "BSC"
    /\ api.client_nodes = <<"UB">>
    /\ history.selected.client_nodes = <<"UB">>

\* ------------------------------------------------------------------ C25
\* the union of the selected server and the selected clients
SelectedNodes == {api.server_node} \cup ToSet(api.client_nodes)

\* C25: from the manifest loop on, all_nodes is the union of the selected
\* server and the selected clients; every manifest request names exactly
\* these nodes; the download loop starts with all of them to visit, visits
\* one of those left at a time, and ends with none left.
C25_AllNodesIsUnion ==
    /\ [](/\ pc \in {"manifest", "download", "report"} => all_nodes = SelectedNodes
          /\ response.endpoint = "list_files" => request.nodes = SelectedNodes
          /\ pc = "report" => pending = {})
    /\ [][/\ (pc = "manifest" /\ pc' = "download") => pending' = SelectedNodes
          /\ (pc = "download" /\ pending' # pending) =>
               (node' \in pending /\ pending' = pending \ {node'})]_vars

C25_Witness ==
    /\ args.client_node_list = <<"UB", "BSC">>
    /\ api.server_node = "BSC"
    /\ pc = "download"
    /\ request.nodes = {"BSC", "UB"}
    /\ Cardinality(all_nodes) = 2
    /\ pending = {"UB"}
    /\ node = "BSC"

\* ------------------------------------------------------------------ C26
\* C26: a call that goes to the network returns, and returns the error
\* value when the response has a status other than 2xx or there is none.
C26_TransportNeverRaises ==
    (lib.pc = "done" /\ lib.wire # "none") =>
        /\ lib.outcome = "returned"
        /\ lib.wire # "ok" => lib.value = ErrorDict

\* ------------------------------------------------------------------ C27
\* parameters were serialized
Serialized == params_data # PyNone

\* C27: the serialized parameters carry num_clients equal to the number of
\* selected client nodes.
C27_NumClientsIsSelectedCount ==
    Serialized => params_data.server.num_clients = Len(api.client_nodes)

\* ------------------------------------------------------------------ C28
\* C28: a dataset id node:id is in the serialized parameters as
\* params[node].data_id = id.
C28_DatasetIdInjected ==
    (Serialized /\ Len(get_dataset_id(dataset)) = 2) =>
        params_data.data_id =
            <<get_dataset_id(dataset)[1], "data_id", get_dataset_id(dataset)[2]>>

\* ------------------------------------------------------------------ C29
\* C29: the parameters a second call serializes without a parameter file
\* are those of a first call: the defaults, with the call's own number of
\* selected clients.
C29_SecondCallGetsDefaults ==
    (history.run = 2 /\ Serialized /\ ~params_data.from_file) =>
        params_data.server =
            [DefaultServerParams EXCEPT !.num_clients = Len(api.client_nodes)]

\* ------------------------------------------------------------------ C30
\* the poller has ended
PollerEnded == poll.state \in {"Finished", "TimedOut"}

\* C30: a manifest or download request was issued only after the poller
\* ended and finish_wait seconds went by since; when the poller ends the
\* run goes to the settle wait, which takes finish_wait seconds and issues
\* no request, and the manifest loop is entered from the settle wait only.
C30_SettleBeforeFiles ==
    /\ []((reqs["list_files"] >= 1 \/ reqs["download"] >= 1) =>
            (PollerEnded /\ now >= poll.ended + args.finish_wait))
    /\ [][/\ (~PollerEnded /\ poll'.state \in {"Finished", "TimedOut"}) =>
               pc' = "settle"
          /\ pc = "settle" =>
               (now' = now + args.finish_wait /\ reqs' = reqs /\ pc' = "manifest")
          /\ (pc # "manifest" /\ pc' = "manifest") => pc = "settle"]_vars

C30_Witness ==
    /\ poll.state = "Finished"
    /\ pc = "download"
    /\ reqs["list_files"] = 2
    /\ reqs["download"] = 1
    /\ now >= poll.ended + args.finish_wait

\* ------------------------------------------------------------------ C31
\* C31: run_flcore_demo called with the required keys, do_health_check
\* absent or false and demo mode off returns what dt4h_flcore gave and does
\* not raise.
C31_OptionalKeysDefaulted ==
    (/\ lib.fn = "run_flcore_demo"
     /\ lib.pc = "done"
     /\ lib.health_check_path = ""
     /\ lib.demo_mode = "off") =>
        (lib.outcome = "returned" /\ IsDict(lib.value))

\* ------------------------------------------------------------------ C39
\* C39: myTool.run does not return normally when dt4h_flcore gave a result
\* with status 'failure'.
C39_FailureSurfaced ==
    (/\ lib.fn = "myTool.run"
     /\ lib.pc = "done"
     /\ lib.value = ResultDict("failure")) => lib.outcome # "returned"

\* ------------------------------------------------------------------ C32
\* the execution's logs are set
LogsSet == execution # PyNone /\ execution.logs # PyNone

\* C32: once the logs are set, every step of the run (the settle wait, the
\* manifest polling, the downloads, the report) leaves the execution's
\* status and logs as they are and issues no status and no logs request.
C32_ExecutionFrozenOnceLogsSet ==
    [][(LogsSet /\ pc # "done") =>
          (/\ execution' = execution
           /\ reqs'["status"] = reqs["status"]
           /\ reqs'["logs"] = reqs["logs"])]_vars

C32_Witness ==
    /\ LogsSet
    /\ execution.logs = Text("flower server log")
    /\ pc = "report"
    /\ reqs["list_files"] = 2
    /\ reqs["download"] = 3

\* ------------------------------------------------------------------ C33
\* C33: in every orchestrator, a health file that cannot be written does
\* not end the run: the orchestrator goes on to the test for enough active
\* nodes.
C33_HealthFileBestEffort ==
    (lib.fn = "save_health_data" /\ lib.pc = "done") => lib.outcome = "continued"

\* ------------------------------------------------------------------ C34
\* C34: the execution_logs of a success result is text.
C34_ReturnedLogsAreText ==
    (pc = "done" /\ result.status = "success") => result.execution_logs.kind = "text"

\* ------------------------------------------------------------------ C35
\* a polling loop is running
Polling ==
    \/ pc \in {"poll_sleep", "poll_status", "poll_logs"}
    \/ lib.fn = "dt4h_demonstrator" /\ lib.pc = "loop"

\* a polling loop ended in Finished or TimedOut
PollingEnded ==
    \/ PollerEnded
    \/ lib.fn = "dt4h_demonstrator" /\ lib.pc = "done"
          /\ lib.outcome \in {"Finished", "TimedOut"}

\* C35: whatever the status fetches give, a polling loop that is running
\* eventually ends in Finished or TimedOut.
C35_PollingTerminates == Polling ~> PollingEnded

\* ------------------------------------------------------------------ C36
\* C36: a finished status leads to the logs request whatever the clock
\* says, and the sentinel is not set then; a poller that timed out issued no
\* logs request, holds the sentinel and saw a last status that is not
\* finished; a poller that finished issued one logs request and holds what
\* that request gave, not the sentinel.
C36_FinishedHasPriority ==
    /\ [][(pc = "poll_status" /\ check_job_finished(execution'.status) = "true") =>
             (pc' = "poll_logs" /\ execution'.logs = PyNone)]_vars
    /\ [](poll.state = "TimedOut" =>
             (/\ reqs["logs"] = 0
              /\ execution.logs = SENTINEL
              /\ check_job_finished(execution.status) # "true"))
    /\ [](poll.state = "Finished" =>
             (/\ reqs["logs"] = 1
              /\ execution.logs # SENTINEL
              /\ check_job_finished(execution.status) = "true"))

\* the finished status was fetched after the deadline
C36_Witness ==
    /\ poll.state = "Finished"
    /\ poll.ended - start_time > args.job_timeout
    /\ reqs["logs"] = 1
    /\ execution.logs = Text("flower server log")

\* ------------------------------------------------------------------ C37
\* C37: every file in the output directory holds the bytes of a download
\* that succeeded; no download leaves an empty file behind.
C37_FilesHoldDownloadedBytes ==
    \A k \in DOMAIN disk : disk[k].kind = "bytes" /\ disk[k] # Bytes(0)

\* ------------------------------------------------------------------ C38
\* the endpoints whose requests name an execution
ExecutionEndpoints == {"status", "logs", "list_files", "download"}

\* C38: the execution takes the id of the submission response and keeps it
\* for the rest of the run; a status, logs, list_files or download request
\* is issued only once the submission was answered with an id, and carries
\* that id.
C38_RequestsCarryExecutionId ==
    /\ [][(pc = "submit" /\ execution' # PyNone) =>
             (/\ SubmissionOk(response'.body)
              /\ execution'.id = response'.body.d["execution_id"])]_vars
    /\ [][(execution # PyNone /\ pc # "done") => execution'.id = execution.id]_vars
    /\ [](\A e \in ExecutionEndpoints :
             reqs[e] >= 1 => (reqs["submit"] = 1 /\ execution # PyNone))
    /\ []((pc # "idle" /\ response.endpoint \in ExecutionEndpoints) =>
             request.execution_id = execution.id)

C38_Witness ==
    /\ pc = "done"
    /\ result.status = "success"
    /\ execution.id = Text(OtherExecId)
    /\ \A e \in ExecutionEndpoints : reqs[e] >= 1
    /\ response.endpoint = "download"
    /\ request.execution_id = Text(OtherExecId)

====
